---- MODULE Spec2Model ----
(***************************************************************************)
(* One run of monthly-report.py (main, load_configuration, getCategories)  *)
(* as a sequential state machine.  The Firefly III server, the SMTP server *)
(* and the environment/config file are the nondeterministic inputs.        *)
(*                                                                         *)
(* Amounts are integers counting thousandths of a currency unit (mills),   *)
(* so that round(x, 2) and round(x) are real conversions.                  *)
(* JSON values that may be absent, null or of the wrong type are tagged    *)
(* records [t |-> ...].                                                    *)
(***************************************************************************)
EXTENDS Integers, Sequences, FiniteSets, TLC

VARIABLES
    env,                      \* which class of inputs this run is exposed to
    pc,                       \* position of main()
    exitCode,                 \* process exit code once pc = "exit"
    emailSent,                \* smtp_conn.send_message(msg) returned normally
    config,                   \* result of load_configuration()
    categories,               \* ids of categories['data']
    totals,                   \* Category Aggregator output
    detail,                   \* r: the category detail response read last
    budgets,                  \* list of budget dicts
    idx,                      \* position of the running for-loop (1-based)
    budgetsSpentCategories,   \* last limits response
    monthSummary,
    yearToDateSummary,
    currencyName,
    metrics,                  \* the seven summary scalars and the derived ones
    budgetsMonthlyList,       \* rendered budget blocks, one per budget
    pageNumber,               \* getCategories: page to request next
    index,                    \* getCategories: identifier put in the URL
    categoriesAmount,         \* getCategories: entries collected so far
    totalsReported,           \* total_pages of each response of this breakdown
    pagesRequested,           \* page numbers requested by this breakdown
    entriesFetched,           \* entries of the pages of this breakdown, as sent
    match,                    \* Budget Reconciler: the spend entry chosen last
    lastCall,                 \* the most recent network request
    stagesCalled              \* stages that have issued a request so far

vars == <<env, pc, exitCode, emailSent, config, categories, totals, detail,
          budgets, idx, budgetsSpentCategories, monthSummary, yearToDateSummary,
          currencyName, metrics, budgetsMonthlyList, pageNumber, index,
          categoriesAmount, totalsReported, pagesRequested, entriesFetched,
          match, lastCall, stagesCalled>>

----------------------------------------------------------------------------
(* Bounds of the exploration *)

MaxBudgets == 2        \* longest budget list the server returns
MaxPage == 3           \* highest page number a breakdown is followed to
MaxCategories == 2     \* longest category list the server returns
MaxSpentEntries == 2   \* longest per-currency 'spent' list of a limit
MaxPageEntries == 2    \* most entries on one transaction page

----------------------------------------------------------------------------
(* JSON values *)

Absent == [t |-> "absent"]          \* key not in the mapping
Null == [t |-> "null"]              \* JSON null / Python None
Num(v) == [t |-> "num", v |-> v]    \* a number or numeric string, in mills
Str == [t |-> "str"]                \* a string that is not a number
List(s) == [t |-> "list", items |-> s]

None == "None"                      \* Python None where a string is expected

Abs(x) == IF x < 0 THEN -x ELSE x

Min(a, b) == IF a < b THEN a ELSE b

SeqsUpTo(S, n) == UNION {[1..k -> S] : k \in 0..n}

\* Python 3 round(n / d) for d > 0: nearest integer, ties to the even one.
RoundDiv(n, d) ==
    LET q == n \div d
        r == n % d
    IN  IF 2 * r < d THEN q
        ELSE IF 2 * r > d THEN q + 1
        ELSE IF q % 2 = 0 THEN q ELSE q + 1

\* round(x): mills to whole units
Round0(x) == RoundDiv(x, 1000)

\* round(x, 2): mills to mills that are a whole number of hundredths
Round2(x) == 10 * RoundDiv(x, 10)

\* float(v) returns a number (None raises TypeError, other text ValueError)
IsFloat(v) == v.t = "num"

\* str(i) as used when an int is formatted into a URL
IntToStr(i) == <<"1", "2", "3", "4", "5", "6", "7", "8", "9">>[i]

----------------------------------------------------------------------------
(* Inputs: what the configuration and the servers may answer.  Each class   *)
(* of runs (env) widens the inputs of one stage and keeps the others small. *)

Envs == {"run", "reconcile", "currency", "classify", "breakdown", "metrics",
         "sums", "aggregate", "derived"}

\* classes that widen one stage and keep every other stage to one course
Narrow(e) == e \in {"sums", "aggregate", "derived"}

Currencies == {"EUR", "USD"}

\* load_configuration: the resolved values main() reads later
Configs(e) ==
    {[complete |-> FALSE, currency |-> None, starttls |-> TRUE,
      authentication |-> TRUE]}
    \cup
    {[complete |-> TRUE, currency |-> c, starttls |-> s, authentication |-> a] :
        c \in (IF e \in {"currency", "metrics"} THEN {None} \cup Currencies
               ELSE IF Narrow(e) THEN {"EUR"}
               ELSE {None, "EUR"}),
        s \in (IF e = "run" THEN BOOLEAN ELSE {TRUE}),
        a \in (IF e = "run" THEN BOOLEAN ELSE {TRUE})}

\* GET /api/v1/categories: the ids of categories['data']
CategoryLists(e) ==
    IF e = "aggregate" THEN SeqsUpTo({"4", "9"}, MaxCategories)
    ELSE IF Narrow(e) THEN {<<"4">>}
    ELSE SeqsUpTo({"4"}, Min(MaxCategories, 1))

\* the name the server has for the category with this id
CategoryName(id) == IF id = "4" THEN "Groceries" ELSE "Gifts"

\* GET /api/v1/categories/<id>: name and the 'spent' / 'earned' sides
CategoryDetails(e, id) ==
    IF e = "aggregate"
    THEN {[name |-> CategoryName(id), spent |-> sp, earned |-> ea] :
             sp \in {Absent, Null, List(<<>>), List(<<Num(-120000)>>)},
             ea \in {Absent, List(<<>>), List(<<Num(50000)>>)}}
    ELSE {[name |-> CategoryName(id), spent |-> List(<<Num(-120000)>>),
           earned |-> List(<<>>)]}
         \cup
         (IF Narrow(e) THEN {}
          ELSE {[name |-> CategoryName(id), spent |-> Absent,
                 earned |-> List(<<Num(50000)>>)]})

\* GET /api/v1/budgets: id, attributes.name, attributes.auto_budget_amount
BudgetEntries(e) ==
    CASE e = "reconcile" ->
            {[id |-> "7", name |-> "Food", budgeted |-> Num(200000)],
             [id |-> "1", name |-> "Food", budgeted |-> Num(500)],
             [id |-> "3", name |-> "Rent", budgeted |-> Null]}
      [] e = "classify" ->
            {[id |-> "7", name |-> "Food", budgeted |-> Num(200000)],
             [id |-> "2", name |-> "Rent", budgeted |-> Num(200000)],
             [id |-> "1", name |-> "Food", budgeted |-> Num(200000)]}
      [] e = "breakdown" ->
            {[id |-> "7", name |-> "Food", budgeted |-> Num(200000)],
             [id |-> "2", name |-> "Rent", budgeted |-> Num(0)]}
      [] e = "run" ->
            {[id |-> "7", name |-> "Food", budgeted |-> Num(200000)],
             [id |-> "1", name |-> "Food", budgeted |-> Num(500)]}
      [] OTHER -> {[id |-> "7", name |-> "Food", budgeted |-> Num(200000)]}

BudgetLists(e) ==
    SeqsUpTo(BudgetEntries(e), IF e \in {"reconcile", "classify"}
                               THEN MaxBudgets ELSE Min(MaxBudgets, 1))

\* one element of attributes.spent of a budget limit
SpendEntries(e) ==
    IF e = "currency"
    THEN {[currency_code |-> c, sum |-> Num(v)] :
              c \in {None} \cup Currencies, v \in {-250000, -150000}}
         \cup {[currency_code |-> "EUR", sum |-> Absent],
               [currency_code |-> "USD", sum |-> Str]}
    ELSE {[currency_code |-> "EUR", sum |-> Num(v)] :
              v \in (IF e \in {"classify", "run"}
                     THEN {-250000, -199996, -150000} ELSE {-250000})}

SpentLists(e) ==
    IF e = "currency" THEN SeqsUpTo(SpendEntries(e), MaxSpentEntries)
    ELSE {<<x>> : x \in SpendEntries(e)}

LimitsBody(message, data, included) ==
    [kind |-> "dict", message |-> message, data |-> data,
     included |-> included]

LimitsWithSpent(spent, included) ==
    LimitsBody(None,
               List(<<[t |-> "dict",
                       attributes |-> [t |-> "dict", spent |-> spent]]>>),
               included)

\* limits responses that carry a non-empty list of spend entries
UsableLimits(e) ==
    {LimitsWithSpent(List(l), "named") : l \in SpentLists(e) \ {<<>>}}

\* limits responses without usable data, in every shape the code tells apart
UnusableLimits(e) ==
    {LimitsBody("Resource not found", Absent, "absent")}
    \cup
    (IF e = "reconcile"
     THEN {LimitsBody("Unauthenticated.", Absent, "absent"),
           LimitsBody(None, Absent, "absent"),
           LimitsBody(None, Null, "absent"),
           LimitsBody(None, List(<<>>), "empty"),
           LimitsBody(None, List(<<>>), "null"),
           LimitsBody(None, List(<<[t |-> "dict", attributes |-> Absent]>>),
                      "named"),
           LimitsBody(None, List(<<[t |-> "dict", attributes |-> Null]>>),
                      "empty"),
           LimitsBody(None, List(<<[t |-> "str"]>>), "absent"),
           LimitsWithSpent(Absent, "named"),
           LimitsWithSpent(Null, "absent"),
           LimitsWithSpent(List(<<>>), "empty")}
     ELSE {LimitsBody(None, List(<<>>), "absent")})

\* GET /api/v1/budgets/<id>/limits; a JSON list is a body that is no mapping
LimitsResponses(e) ==
    UsableLimits(e) \cup UnusableLimits(e)
    \cup (IF e = "reconcile"
          THEN {[kind |-> "list", message |-> None, data |-> Absent,
                 included |-> "absent"]}
          ELSE {})

\* GET /api/v1/summary/basic: an ordered mapping from keys
\* '<prefix><code>' to {'monetary_value': ...}
MonthPrefixes == <<"spent-in-", "earned-in-", "balance-in-">>

YearPrefixes == <<"spent-in-", "earned-in-", "balance-in-", "net-worth-in-">>

SummaryValue(period, prefix, code) ==
    (IF period = "month" THEN 1 ELSE 10)
    * (IF code = "EUR" THEN 1 ELSE 3)
    * (CASE prefix = "spent-in-" -> -1200000
         [] prefix = "earned-in-" -> 2000000
         [] prefix = "balance-in-" -> 800000
         [] OTHER -> 5000000)

RECURSIVE SummaryFields(_, _, _, _)
SummaryFields(period, prefixes, codes, missing) ==
    IF codes = <<>> THEN <<>>
    ELSE LET c == Head(codes)
             fields == [i \in 1..Len(prefixes) |->
                          [key |-> [prefix |-> prefixes[i], code |-> c],
                           monetary_value |->
                               Num(SummaryValue(period, prefixes[i], c))]]
             kept == SelectSeq(fields, LAMBDA f : f.key \notin missing)
         IN  kept \o SummaryFields(period, prefixes, Tail(codes), missing)

CodeOrders == {<<>>, <<"EUR">>, <<"USD">>, <<"EUR", "USD">>, <<"USD", "EUR">>}

KeysOf(prefixes) ==
    {[prefix |-> prefixes[i], code |-> c] :
        i \in 1..Len(prefixes), c \in Currencies}

\* a month summary for EUR with the given spent and earned values
MonthSummaryOf(spent, earned) ==
    <<[key |-> [prefix |-> "spent-in-", code |-> "EUR"],
       monetary_value |-> Num(spent)],
      [key |-> [prefix |-> "earned-in-", code |-> "EUR"],
       monetary_value |-> Num(earned)],
      [key |-> [prefix |-> "balance-in-", code |-> "EUR"],
       monetary_value |-> Num(earned + spent)]>>

MonthSummaries(e) ==
    IF e = "metrics"
    THEN {SummaryFields("month", MonthPrefixes, o, m) :
             o \in CodeOrders,
             m \in {{}} \cup {{k} : k \in KeysOf(MonthPrefixes)}}
    ELSE IF e = "derived"
    THEN {MonthSummaryOf(sp, ea) :
             sp \in {0, -1000, -1200000, -1234560, -2000500},
             ea \in {-500000, 0, 1000, 2000000, 3000500}}
    ELSE {SummaryFields("month", MonthPrefixes, <<"EUR">>, {})}

YearSummaries(e) ==
    IF e = "metrics"
    THEN {SummaryFields("year", YearPrefixes, o, m) :
             o \in {<<"EUR">>, <<"EUR", "USD">>},
             m \in {{}} \cup {{k} : k \in KeysOf(YearPrefixes)}}
    ELSE IF e = "derived"
    THEN {SummaryFields("year", YearPrefixes, <<"EUR">>, m) :
             m \in {{}, {[prefix |-> "net-worth-in-", code |-> "EUR"]}}}
    ELSE {SummaryFields("year", YearPrefixes, <<"EUR">>, {})}

\* GET .../transactions?page=N: data entries and meta.pagination.total_pages.
\* total_pages never exceeds MaxPage, which is what ends the exploration.
PageEntries(e) ==
    IF e = "sums"
    THEN SeqsUpTo({[category_name |-> n, amount |-> Num(v)] :
                      n \in {"Fuel", "Groceries", "Dining"},
                      v \in {25002, 50000}},
                  MaxPageEntries)
    ELSE IF e \in {"breakdown", "run"}
    THEN {<<>>, <<[category_name |-> "Groceries", amount |-> Num(50004)]>>}
    ELSE {<<>>}

TotalPages(e) ==
    IF e = "breakdown" THEN {Num(n) : n \in -1..MaxPage} \cup {Absent}
    ELSE {Num(1), Num(2), Absent}

PageResponses(e) ==
    {[data |-> d, total_pages |-> t] : d \in PageEntries(e), t \in TotalPages(e)}

----------------------------------------------------------------------------
(* Category Aggregator, lines 157-168 *)

\* CategorySide catching KeyError alone: an empty list raises IndexError
CategorySideKeyError(side) ==
    IF side.t = "absent" THEN [raised |-> FALSE, sum |-> 0]
    ELSE IF side.t = "list" /\ side.items # <<>> /\ IsFloat(side.items[1])
         THEN [raised |-> FALSE, sum |-> side.items[1].v]
         ELSE [raised |-> TRUE, sum |-> 0]

\* r['data']['attributes'][side][0]['sum'] under except (KeyError, IndexError)
CategorySide(side) ==
    IF side.t = "absent" THEN [raised |-> FALSE, sum |-> 0]
    ELSE IF side.t = "list"
         THEN IF side.items = <<>> THEN [raised |-> FALSE, sum |-> 0]
              ELSE IF IsFloat(side.items[1])
                   THEN [raised |-> FALSE, sum |-> side.items[1].v]
                   ELSE [raised |-> TRUE, sum |-> 0]
         ELSE [raised |-> TRUE, sum |-> 0]

AggregateCategory(r) ==
    LET categorySpent == CategorySide(r.spent)
        categoryEarned == CategorySide(r.earned)
    IN  [raised |-> categorySpent.raised \/ categoryEarned.raised,
         entry |-> [name |-> r.name, spent |-> categorySpent.sum,
                    earned |-> categoryEarned.sum,
                    total |-> categoryEarned.sum + categorySpent.sum]]

----------------------------------------------------------------------------
(* Budget Reconciler, lines 181-219 *)

\* next((x for x in spent_list if x.get('currency_code') == preferred), None),
\* then spent_list[0] when that is None.  An entry without currency_code
\* yields None from .get, as does a configuration without currency.
MatchIndex(spent_list, preferred_currency) ==
    LET hits == {i \in 1..Len(spent_list) :
                    spent_list[i].currency_code = preferred_currency}
    IN  IF hits = {} THEN 1
        ELSE CHOOSE i \in hits : \A j \in hits : i <= j

\* float(match.get('sum') or 0.0)
SumOf(entry) ==
    IF entry.sum.t = "num" THEN [raised |-> FALSE, v |-> entry.sum.v]
    ELSE IF entry.sum.t \in {"absent", "null"} THEN [raised |-> FALSE, v |-> 0]
    ELSE [raised |-> TRUE, v |-> 0]

\* lines 192-211: the try block; every exception in it ends in 0.0
SpentInCurrency(resp, preferred_currency) ==
    LET data == IF resp.data.t = "list" THEN resp.data.items ELSE <<>>
    IN  IF data = <<>> THEN [v |-> 0, match |-> Null]
        ELSE IF data[1].t # "dict" THEN [v |-> 0, match |-> Null]
        ELSE LET attrs == data[1].attributes
                 spent_list == IF attrs.t = "dict" /\ attrs.spent.t = "list"
                               THEN attrs.spent.items ELSE <<>>
             IN  IF spent_list = <<>> THEN [v |-> 0, match |-> Null]
                 ELSE LET m == spent_list[MatchIndex(spent_list,
                                                     preferred_currency)]
                      IN  [v |-> IF SumOf(m).raised THEN 0 ELSE SumOf(m).v,
                           match |-> m]

\* ReconcileBudget with data read as resp['data'] outside the try block:
\* a body without a data list raises out of the loop
ReconcileBudgetStrictData(resp, preferred_currency) ==
    IF resp.kind # "dict" \/ resp.data.t # "list"
    THEN [abort |-> resp.message # "Resource not found",
          spent |-> 0, match |-> Null, matched |-> FALSE]
    ELSE LET s == SpentInCurrency(resp, preferred_currency)
         IN  [abort |-> FALSE, spent |-> Round2(Abs(s.v)), match |-> s.match,
              matched |-> s.match # Null]

\* ReconcileBudget storing the signed figure: round(float(...), 2) without abs
ReconcileBudgetSigned(resp, preferred_currency) ==
    IF resp.kind # "dict"
    THEN [abort |-> TRUE, spent |-> 0, match |-> Null, matched |-> FALSE]
    ELSE IF resp.message = "Resource not found"
    THEN [abort |-> FALSE, spent |-> 0, match |-> Null, matched |-> FALSE]
    ELSE LET s == SpentInCurrency(resp, preferred_currency)
         IN  [abort |-> FALSE, spent |-> Round2(s.v), match |-> s.match,
              matched |-> s.match # Null]

\* Outcome of one pass of the loop body for response resp:
\* abort = an exception leaves the loop (AttributeError on a body that is no
\* mapping); otherwise the value stored in budget['spent'].
ReconcileBudget(resp, preferred_currency) ==
    IF resp.kind # "dict"
    THEN [abort |-> TRUE, spent |-> 0, match |-> Null, matched |-> FALSE]
    ELSE IF resp.message = "Resource not found"
    THEN [abort |-> FALSE, spent |-> 0, match |-> Null, matched |-> FALSE]
    ELSE LET s == SpentInCurrency(resp, preferred_currency)
         IN  [abort |-> FALSE, spent |-> Round2(Abs(s.v)), match |-> s.match,
              matched |-> s.match # Null]

----------------------------------------------------------------------------
(* Metrics Calculator, lines 225-255 *)

Unbound == "<unbound>"     \* currencyName was never assigned

\* for key in monthSummary: if re.match(r'spent-in-.*', key): currencyName = ...
\* The loop has no break: every matching key assigns again.
RECURSIVE ScanSpentKeys(_, _)
ScanSpentKeys(summary, current) ==
    IF summary = <<>> THEN current
    ELSE ScanSpentKeys(Tail(summary),
                       IF Head(summary).key.prefix = "spent-in-"
                       THEN Head(summary).key.code ELSE current)

ResolveCurrency(currency, summary) ==
    IF currency # None THEN currency ELSE ScanSpentKeys(summary, Unbound)

\* summary[prefix + code]['monetary_value'], Absent for a KeyError
Field(summary, prefix, code) ==
    LET hits == {i \in 1..Len(summary) :
                    summary[i].key = [prefix |-> prefix, code |-> code]}
    IN  IF hits = {} THEN Absent
        ELSE summary[CHOOSE i \in hits : TRUE].monetary_value

ZeroMetrics ==
    [spentThisMonth |-> 0, earnedThisMonth |-> 0, netChangeThisMonth |-> 0,
     spentThisYear |-> 0, earnedThisYear |-> 0, netChangeThisYear |-> 0,
     netWorth |-> 0]

\* ParseSummaries with one try per lookup: only the failing one becomes 0
ParseSummariesPerField(code, month, year) ==
    LET val(summary, prefix) ==
            IF code # Unbound /\ IsFloat(Field(summary, prefix, code))
            THEN Field(summary, prefix, code).v ELSE 0
    IN  [spentThisMonth |-> Abs(val(month, "spent-in-")),
         earnedThisMonth |-> val(month, "earned-in-"),
         netChangeThisMonth |-> val(month, "balance-in-"),
         spentThisYear |-> val(year, "spent-in-"),
         earnedThisYear |-> val(year, "earned-in-"),
         netChangeThisYear |-> val(year, "balance-in-"),
         netWorth |-> val(year, "net-worth-in-")]

\* lines 233-251: seven lookups in one try; any exception zeroes all seven
ParseSummaries(code, month, year) ==
    LET f == <<Field(month, "spent-in-", code),
               Field(month, "earned-in-", code),
               Field(month, "balance-in-", code),
               Field(year, "spent-in-", code),
               Field(year, "earned-in-", code),
               Field(year, "balance-in-", code),
               Field(year, "net-worth-in-", code)>>
    IN  IF code = Unbound \/ \E i \in 1..7 : ~IsFloat(f[i])
        THEN ZeroMetrics
        ELSE [spentThisMonth |-> Abs(f[1].v), earnedThisMonth |-> f[2].v,
              netChangeThisMonth |-> f[3].v, spentThisYear |-> f[4].v,
              earnedThisYear |-> f[5].v, netChangeThisYear |-> f[6].v,
              netWorth |-> f[7].v]

\* round(n / d) for any d # 0
RoundQ(n, d) == IF d > 0 THEN RoundDiv(n, d) ELSE RoundDiv(-n, -d)

\* DerivedMetrics with the percentage cut off instead of rounded
DerivedMetricsTruncated(m) ==
    LET savedThisMonth == Round0(m.earnedThisMonth - m.spentThisMonth)
        savedPercentage ==
            IF m.earnedThisMonth # 0
            THEN (savedThisMonth * 1000 * 100) \div m.earnedThisMonth
            ELSE 0
    IN  [savedThisMonth |-> savedThisMonth,
         savedPercentage |-> savedPercentage,
         spendPercentage |-> 100 - savedPercentage]

\* lines 253-255
DerivedMetrics(m) ==
    LET savedThisMonth == Round0(m.earnedThisMonth - m.spentThisMonth)
        savedPercentage ==
            IF m.earnedThisMonth # 0
            THEN RoundQ(savedThisMonth * 1000 * 100, m.earnedThisMonth)
            ELSE 0
    IN  [savedThisMonth |-> savedThisMonth,
         savedPercentage |-> savedPercentage,
         spendPercentage |-> 100 - savedPercentage]

----------------------------------------------------------------------------
(* Budget blocks, lines 433-441, and getCategories, lines 291-323 *)

\* budgeted > spent_val chooses the on-track block; anything else the
\* overspent block with its category breakdown
IsOnTrack(budgeted, spent_val) == budgeted > spent_val

\* round((round(spent_val) / round(budgeted)) * 100) if budgeted else default
Percentage(budgeted, spent_val, default) ==
    IF budgeted = 0 THEN [raised |-> FALSE, pct |-> default]
    ELSE IF Round0(budgeted) = 0 THEN [raised |-> TRUE, pct |-> 0]
    ELSE [raised |-> FALSE,
          pct |-> RoundQ(Round0(spent_val) * 100, Round0(budgeted))]

\* lines 294-298: the position (1-based) of the first budget with that name
BudgetIndexByName(list, name) ==
    LET hits == {i \in 1..Len(list) : list[i].name = name}
    IN  IF hits = {} THEN 1 ELSE CHOOSE i \in hits : \A j \in hits : i <= j

\* MorePages with the comparison off by one
MorePagesInclusive(page, total_pages) == page <= total_pages

\* line 306
MorePages(page, total_pages) == page < total_pages

RECURSIVE SumsLastWins(_, _)
\* SumsInOrder with sums[name] = spent: a later entry replaces the total
SumsLastWins(items, sums) ==
    IF items = <<>> THEN sums
    ELSE LET it == Head(items)
             at == {i \in 1..Len(sums) : sums[i].name = it.name}
         IN  SumsLastWins(Tail(items),
                 IF at = {}
                 THEN Append(sums, [name |-> it.name, total |-> it.spent])
                 ELSE [i \in 1..Len(sums) |->
                          IF i \in at
                          THEN [sums[i] EXCEPT !.total = it.spent]
                          ELSE sums[i]])

RECURSIVE SumsInOrder(_, _)
\* lines 310-316: name -> sum, in order of first appearance
SumsInOrder(items, sums) ==
    IF items = <<>> THEN sums
    ELSE LET it == Head(items)
             at == {i \in 1..Len(sums) : sums[i].name = it.name}
         IN  SumsInOrder(Tail(items),
                 IF at = {}
                 THEN Append(sums, [name |-> it.name, total |-> it.spent])
                 ELSE [i \in 1..Len(sums) |->
                          IF i \in at
                          THEN [sums[i] EXCEPT !.total = @ + it.spent]
                          ELSE sums[i]])

RECURSIVE SortedDesc(_)
\* line 317: sorted(..., key=sum, reverse=True), which is stable
SortedDesc(sums) ==
    IF sums = <<>> THEN <<>>
    ELSE LET top == CHOOSE i \in 1..Len(sums) :
                       \A j \in 1..Len(sums) :
                          sums[j].total < sums[i].total
                          \/ (sums[j].total = sums[i].total /\ i <= j)
             rest == [k \in 1..(Len(sums) - 1) |->
                         IF k < top THEN sums[k] ELSE sums[k + 1]]
         IN  <<sums[top]>> \o SortedDesc(rest)

----------------------------------------------------------------------------
(* main(): order of the stages and the requests they issue *)

\* NextStage with the budget blocks (and their page requests) built before
\* the two summary queries
NextStageBlocksFirst(s) ==
    CASE s = "start" -> "about"
      [] s = "about" -> "categories"
      [] s = "categories" -> "catDetail"
      [] s = "catDetail" -> "budgets"
      [] s = "budgets" -> "limits"
      [] s = "limits" -> "tables"
      [] s = "tables" -> "render"
      [] s = "render" -> "monthSummary"
      [] s = "monthSummary" -> "yearSummary"
      [] s = "yearSummary" -> "connect"
      [] s = "connect" -> "starttls"
      [] s = "starttls" -> "login"
      [] s = "login" -> "send"
      [] OTHER -> "exit"

\* the statement order of main(), lines 129-584
NextStage(s) ==
    CASE s = "start" -> "about"
      [] s = "about" -> "categories"
      [] s = "categories" -> "catDetail"
      [] s = "catDetail" -> "budgets"
      [] s = "budgets" -> "limits"
      [] s = "limits" -> "monthSummary"
      [] s = "monthSummary" -> "yearSummary"
      [] s = "yearSummary" -> "tables"
      [] s = "tables" -> "render"
      [] s = "render" -> "connect"
      [] s = "connect" -> "starttls"
      [] s = "starttls" -> "login"
      [] s = "login" -> "send"
      [] OTHER -> "exit"

\* a for-loop over an empty list and an if-block whose flag is off have no step
HasNoStep(s, cats, buds, cfg) ==
    \/ s = "catDetail" /\ cats = <<>>
    \/ s \in {"limits", "render"} /\ buds = <<>>
    \/ s = "starttls" /\ ~cfg.starttls
    \/ s = "login" /\ ~cfg.authentication

RECURSIVE Enter(_, _, _, _)
Enter(s, cats, buds, cfg) ==
    IF HasNoStep(s, cats, buds, cfg)
    THEN Enter(NextStage(s), cats, buds, cfg)
    ELSE s

\* where main() stands after finishing stage s
After(s, cats, buds, cfg) == Enter(NextStage(s), cats, buds, cfg)

NoCall == [stage |-> "none", id |-> None, page |-> 0, budget |-> 0,
           status |-> "none"]

Request(stage, id, page, budget, status) ==
    [stage |-> stage, id |-> id, page |-> page, budget |-> budget,
     status |-> status]

\* the request the statement at pc issues
CurrentRequest(status) ==
    CASE pc = "about" -> Request("about", None, 0, 0, status)
      [] pc = "categories" -> Request("categories", None, 0, 0, status)
      [] pc = "catDetail" ->
            Request("catDetail", categories[idx], 0, 0, status)
      [] pc = "budgets" -> Request("budgets", None, 0, 0, status)
      [] pc = "limits" -> Request("limits", budgets[idx].id, 0, idx, status)
      [] pc \in {"monthSummary", "yearSummary"} ->
            Request("summary", None, 0, 0, status)
      [] pc = "pages" ->
            Request("pages", IntToStr(index), pageNumber, idx, status)
      [] OTHER -> Request("send", None, 0, 0, status)

Issue(status) ==
    /\ lastCall' = CurrentRequest(status)
    /\ stagesCalled' = stagesCalled \cup {CurrentRequest(status).stage}

Exit(code) ==
    /\ pc' = "exit"
    /\ exitCode' = code

NoMetrics ==
    [computed |-> FALSE, spentThisMonth |-> 0, earnedThisMonth |-> 0,
     netChangeThisMonth |-> 0, spentThisYear |-> 0, earnedThisYear |-> 0,
     netChangeThisYear |-> 0, netWorth |-> 0, savedThisMonth |-> 0,
     savedPercentage |-> 0, spendPercentage |-> 0]

NoConfig == [complete |-> FALSE, currency |-> None, starttls |-> FALSE,
             authentication |-> FALSE]

InitIn(e) ==
    /\ env = e
    /\ pc = "start"
    /\ exitCode = -1
    /\ emailSent = FALSE
    /\ config = NoConfig
    /\ categories = <<>>
    /\ totals = <<>>
    /\ detail = Null
    /\ budgets = <<>>
    /\ idx = 0
    /\ budgetsSpentCategories = Null
    /\ monthSummary = <<>>
    /\ yearToDateSummary = <<>>
    /\ currencyName = Unbound
    /\ metrics = NoMetrics
    /\ budgetsMonthlyList = <<>>
    /\ pageNumber = 0
    /\ index = 0
    /\ categoriesAmount = <<>>
    /\ totalsReported = <<>>
    /\ pagesRequested = <<>>
    /\ entriesFetched = <<>>
    /\ match = Null
    /\ lastCall = NoCall
    /\ stagesCalled = {}

Init == InitIn("run")

aggVars == <<categories, totals, detail>>
budgetVars == <<budgets, budgetsSpentCategories, match>>
metricVars == <<monthSummary, yearToDateSummary, currencyName, metrics>>
pageVars == <<pageNumber, index, categoriesAmount, totalsReported,
              pagesRequested, entriesFetched>>

----------------------------------------------------------------------------
(* Steps of main() *)

\* line 129 and load_configuration, lines 102-123
LoadConfiguration ==
    /\ pc = "start"
    /\ \E c \in Configs(env) :
          IF c.complete
          THEN /\ config' = c
               /\ pc' = NextStage(pc)
               /\ UNCHANGED exitCode
          ELSE /\ Exit(1)
               /\ UNCHANGED config
    /\ UNCHANGED <<env, emailSent, aggVars, budgetVars, idx, metricVars,
                   budgetsMonthlyList, pageVars, lastCall, stagesCalled>>

\* lines 141-145: the about request; its failure is logged and ignored
FetchAbout ==
    /\ pc = "about"
    /\ \E status \in {"answered", "failed"} : Issue(status)
    /\ pc' = NextStage(pc)
    /\ UNCHANGED <<env, exitCode, emailSent, config, aggVars, budgetVars, idx,
                   metricVars, budgetsMonthlyList, pageVars>>

\* a required request raises (transport failure, body that is not JSON):
\* the exception reaches line 589
RequestFails ==
    /\ pc \in {"categories", "catDetail", "budgets", "limits", "monthSummary",
               "yearSummary", "pages"}
    /\ Issue("failed")
    /\ Exit(99)
    /\ pagesRequested' = IF pc = "pages"
                         THEN Append(pagesRequested, pageNumber)
                         ELSE pagesRequested
    /\ UNCHANGED <<env, emailSent, config, aggVars, budgetVars, idx,
                   metricVars, budgetsMonthlyList, pageNumber, index,
                   categoriesAmount, totalsReported, entriesFetched>>

\* lines 147-151
FetchCategoryList ==
    /\ pc = "categories"
    /\ Issue("answered")
    /\ \E r \in CategoryLists(env) :
          /\ categories' = r
          /\ pc' = After(pc, r, budgets, config)
    /\ totals' = <<>>
    /\ idx' = 1
    /\ UNCHANGED <<env, exitCode, emailSent, config, detail, budgetVars,
                   metricVars, budgetsMonthlyList, pageVars>>

\* lines 152-168: one pass of the category loop
FetchCategoryDetail ==
    /\ pc = "catDetail"
    /\ Issue("answered")
    /\ \E r \in CategoryDetails(env, categories[idx]) :
          LET a == AggregateCategory(r)
          IN  /\ detail' = r
              /\ IF a.raised
                 THEN /\ Exit(99)
                      /\ UNCHANGED <<totals, idx>>
                 ELSE /\ totals' = Append(totals, a.entry)
                      /\ idx' = idx + 1
                      /\ pc' = IF idx < Len(categories) THEN pc
                               ELSE After(pc, categories, budgets, config)
                      /\ UNCHANGED exitCode
    /\ UNCHANGED <<env, emailSent, config, categories, budgetVars, metricVars,
                   budgetsMonthlyList, pageVars>>

\* lines 171-179
FetchBudgets ==
    /\ pc = "budgets"
    /\ Issue("answered")
    /\ \E r \in BudgetLists(env) :
          /\ budgets' = [i \in 1..Len(r) |->
                           [id |-> r[i].id, name |-> r[i].name,
                            budgeted |-> r[i].budgeted,
                            spent |-> 0, hasSpent |-> FALSE]]
          /\ pc' = After(pc, categories, r, config)
    /\ idx' = 1
    /\ UNCHANGED <<env, exitCode, emailSent, config, aggVars,
                   budgetsSpentCategories, match, metricVars,
                   budgetsMonthlyList, pageVars>>

\* lines 181-219: one pass of the reconciliation loop
FetchLimits ==
    /\ pc = "limits"
    /\ Issue("answered")
    /\ \E r \in LimitsResponses(env) :
          LET out == ReconcileBudget(r, config.currency)
          IN  /\ budgetsSpentCategories' = r
              /\ IF out.abort
                 THEN /\ Exit(99)
                      /\ UNCHANGED <<budgets, idx, match>>
                 ELSE /\ budgets' = [budgets EXCEPT
                                        ![idx].spent = out.spent,
                                        ![idx].hasSpent = TRUE]
                      /\ match' = IF out.matched THEN out.match ELSE match
                      /\ idx' = idx + 1
                      /\ pc' = IF idx < Len(budgets) THEN pc
                               ELSE After(pc, categories, budgets, config)
                      /\ UNCHANGED exitCode
    /\ UNCHANGED <<env, emailSent, config, aggVars, metricVars,
                   budgetsMonthlyList, pageVars>>

\* lines 221-222
FetchMonthSummary ==
    /\ pc = "monthSummary"
    /\ Issue("answered")
    /\ \E r \in MonthSummaries(env) : monthSummary' = r
    /\ pc' = NextStage(pc)
    /\ UNCHANGED <<env, exitCode, emailSent, config, aggVars, budgetVars, idx,
                   yearToDateSummary, currencyName, metrics,
                   budgetsMonthlyList, pageVars>>

\* lines 223-255: the second summary and the metrics computed from both
FetchYearSummary ==
    /\ pc = "yearSummary"
    /\ Issue("answered")
    /\ \E r \in YearSummaries(env) :
          LET code == ResolveCurrency(config.currency, monthSummary)
              m == ParseSummaries(code, monthSummary, r)
              d == DerivedMetrics(m)
          IN  /\ yearToDateSummary' = r
              /\ currencyName' = code
              /\ metrics' = [computed |-> TRUE,
                             spentThisMonth |-> m.spentThisMonth,
                             earnedThisMonth |-> m.earnedThisMonth,
                             netChangeThisMonth |-> m.netChangeThisMonth,
                             spentThisYear |-> m.spentThisYear,
                             earnedThisYear |-> m.earnedThisYear,
                             netChangeThisYear |-> m.netChangeThisYear,
                             netWorth |-> m.netWorth,
                             savedThisMonth |-> d.savedThisMonth,
                             savedPercentage |-> d.savedPercentage,
                             spendPercentage |-> d.spendPercentage]
    /\ pc' = NextStage(pc)
    /\ UNCHANGED <<env, exitCode, emailSent, config, aggVars, budgetVars, idx,
                   monthSummary, budgetsMonthlyList, pageVars>>


\* lines 257-289: the category, budget and general tables.  Line 268 converts
\* every budget's amount with float(); None raises TypeError.
RenderTables ==
    /\ pc = "tables"
    /\ IF \E i \in 1..Len(budgets) : ~IsFloat(budgets[i].budgeted)
       THEN /\ Exit(99)
            /\ UNCHANGED idx
       ELSE /\ pc' = After(pc, categories, budgets, config)
            /\ idx' = 1
            /\ UNCHANGED exitCode
    /\ UNCHANGED <<env, emailSent, config, aggVars, budgetVars, metricVars,
                   budgetsMonthlyList, pageVars, lastCall, stagesCalled>>

\* budget.get('spent', 0)
SpentVal(b) == IF b.hasSpent THEN b.spent ELSE 0

\* where the budget loop of lines 433-441 stands after finishing budget idx
AfterBudgetBlock ==
    IF idx < Len(budgets) THEN "render"
    ELSE After("render", categories, budgets, config)

\* lines 433-441: one pass of the budget loop up to the call of getCategories
RenderBudget ==
    /\ pc = "render"
    /\ LET b == budgets[idx]
           budgeted == b.budgeted.v
           spent_val == SpentVal(b)
           onTrack == IsOnTrack(budgeted, spent_val)
           p == Percentage(budgeted, spent_val, IF onTrack THEN 0 ELSE 100)
       IN  IF p.raised
           THEN /\ Exit(99)
                /\ UNCHANGED <<idx, budgetsMonthlyList, pageVars>>
           ELSE IF onTrack
           THEN /\ budgetsMonthlyList' =
                      Append(budgetsMonthlyList,
                             [name |-> b.name, kind |-> "good",
                              percentage |-> p.pct, categories |-> <<>>])
                /\ idx' = idx + 1
                /\ pc' = AfterBudgetBlock
                /\ UNCHANGED <<exitCode, pageVars>>
           ELSE /\ pageNumber' = 1
                /\ categoriesAmount' = <<>>
                /\ index' = BudgetIndexByName(budgets, b.name)
                /\ totalsReported' = <<>>
                /\ pagesRequested' = <<>>
                /\ entriesFetched' = <<>>
                /\ pc' = "pages"
                /\ UNCHANGED <<exitCode, idx, budgetsMonthlyList>>
    /\ UNCHANGED <<env, emailSent, config, aggVars, budgetVars, metricVars,
                   lastCall, stagesCalled>>

\* lines 299-323 and the rest of line 441: one pass of the page loop; after
\* the last page the sums are built, sorted and put into the budget's block
FetchPage ==
    /\ pc = "pages"
    /\ Issue("answered")
    /\ pagesRequested' = Append(pagesRequested, pageNumber)
    /\ \E r \in PageResponses(env) :
          /\ entriesFetched' = entriesFetched \o r.data
          /\ categoriesAmount' =
                categoriesAmount \o
                [i \in 1..Len(r.data) |->
                    [name |-> r.data[i].category_name,
                     spent |-> Round2(r.data[i].amount.v)]]
          /\ IF r.total_pages.t # "num"
             THEN /\ Exit(99)
                  /\ UNCHANGED <<pageNumber, totalsReported, idx,
                                 budgetsMonthlyList>>
             ELSE /\ totalsReported' = Append(totalsReported, r.total_pages.v)
                  /\ IF MorePages(pageNumber, r.total_pages.v)
                     THEN /\ pageNumber' = pageNumber + 1
                          /\ UNCHANGED <<pc, exitCode, idx,
                                         budgetsMonthlyList>>
                     ELSE /\ budgetsMonthlyList' =
                                Append(budgetsMonthlyList,
                                  [name |-> budgets[idx].name,
                                   kind |-> "bad",
                                   percentage |->
                                      Percentage(budgets[idx].budgeted.v,
                                                 SpentVal(budgets[idx]),
                                                 100).pct,
                                   categories |->
                                      SortedDesc(SumsInOrder(
                                          categoriesAmount', <<>>))])
                          /\ idx' = idx + 1
                          /\ pc' = AfterBudgetBlock
                          /\ UNCHANGED <<pageNumber, exitCode>>
    /\ UNCHANGED <<env, emailSent, config, aggVars, budgetVars, metricVars,
                   index>>

\* line 568: smtplib.SMTP(host, port) connects; a failure reaches line 589
SmtpConnect ==
    /\ pc = "connect"
    /\ Issue("answered")
    /\ \E ok \in BOOLEAN :
          IF ok THEN /\ pc' = After(pc, categories, budgets, config)
                     /\ UNCHANGED exitCode
          ELSE Exit(99)
    /\ UNCHANGED <<env, emailSent, config, aggVars, budgetVars, idx,
                   metricVars, budgetsMonthlyList, pageVars>>

\* lines 569-575
StartTls ==
    /\ pc = "starttls"
    /\ Issue("answered")
    /\ \E ok \in BOOLEAN :
          IF ok THEN /\ pc' = After(pc, categories, budgets, config)
                     /\ UNCHANGED exitCode
          ELSE Exit(2)
    /\ UNCHANGED <<env, emailSent, config, aggVars, budgetVars, idx,
                   metricVars, budgetsMonthlyList, pageVars>>

\* lines 576-582
Login ==
    /\ pc = "login"
    /\ Issue("answered")
    /\ \E ok \in BOOLEAN :
          IF ok THEN /\ pc' = After(pc, categories, budgets, config)
                     /\ UNCHANGED exitCode
          ELSE Exit(3)
    /\ UNCHANGED <<env, emailSent, config, aggVars, budgetVars, idx,
                   metricVars, budgetsMonthlyList, pageVars>>

\* the exit code with which main() returns after the send step, whatever
\* send_message did: lines 583-587 log a failure and fall through
ExitAfterSend(sent) == 0

\* lines 583-587, then the normal end of main()
SendMessage ==
    /\ pc = "send"
    /\ Issue("answered")
    /\ \E sent \in BOOLEAN :
          /\ emailSent' = sent
          /\ Exit(ExitAfterSend(sent))
    /\ UNCHANGED <<env, config, aggVars, budgetVars, idx, metricVars,
                   budgetsMonthlyList, pageVars>>

Next ==
    \/ LoadConfiguration
    \/ FetchAbout
    \/ FetchCategoryList
    \/ FetchCategoryDetail
    \/ FetchBudgets
    \/ FetchLimits
    \/ FetchMonthSummary
    \/ FetchYearSummary
    \/ RenderTables
    \/ RenderBudget
    \/ FetchPage
    \/ SmtpConnect
    \/ StartTls
    \/ Login
    \/ SendMessage
    \/ RequestFails

\* every stage wide enough to run, configuration and delivery in full
Spec == Init /\ [][Next]_vars

\* budget lists and limits responses in full
InitReconcile == InitIn("reconcile")
SpecReconcile == InitReconcile /\ [][Next]_vars

\* per-currency spend lists in full
InitCurrency == InitIn("currency")
SpecCurrency == InitCurrency /\ [][Next]_vars

\* budget lists with every order of spent and budgeted
InitClassify == InitIn("classify")
SpecClassify == InitClassify /\ [][Next]_vars

\* page responses in full
InitBreakdown == InitIn("breakdown")
SpecBreakdown == InitBreakdown /\ [][Next]_vars

\* category lists and category detail responses in full
InitAggregate == InitIn("aggregate")
SpecAggregate == InitAggregate /\ [][Next]_vars

\* month summaries with several spent and earned values
InitDerived == InitIn("derived")
SpecDerived == InitDerived /\ [][Next]_vars

\* summary responses in full
InitMetrics == InitIn("metrics")
SpecMetrics == InitMetrics /\ [][Next]_vars

\* transaction pages with several entries, names and amounts
InitSums == InitIn("sums")
SpecSums == InitSums /\ [][Next]_vars

----------------------------------------------------------------------------
(* Properties *)

Answered(stage) == lastCall.stage = stage /\ lastCall.status = "answered"

\* main() has left the reconciliation loop without an exception in it
PastReconciliation ==
    pc \in {"monthSummary", "yearSummary", "tables", "render", "pages",
            "connect", "starttls", "login", "send"}

\* attributes.spent of the first data entry, <<>> when there is none
SpentListOf(resp) ==
    IF resp.kind = "dict" /\ resp.data.t = "list" /\ resp.data.items # <<>>
       /\ resp.data.items[1].t = "dict"
       /\ resp.data.items[1].attributes.t = "dict"
       /\ resp.data.items[1].attributes.spent.t = "list"
    THEN resp.data.items[1].attributes.spent.items
    ELSE <<>>

\* a JSON mapping without usable data: the not-found message, an error body,
\* no or an empty data array, a data entry without attributes or spent
NoUsableData(resp) ==
    /\ resp # Null
    /\ resp.kind = "dict"
    /\ \/ resp.message = "Resource not found"
       \/ SpentListOf(resp) = <<>>

\* C1: when the limits lookup of a budget returns a mapping without usable
\* data, that budget's spent is 0.0, the run has not aborted and goes on with
\* the next budget; after the loop every budget has its spent.
C1_UnusableLimitsContained ==
    /\ (Answered("limits") /\ NoUsableData(budgetsSpentCategories)) =>
          /\ pc # "exit"
          /\ budgets[lastCall.budget].hasSpent
          /\ budgets[lastCall.budget].spent = 0
          /\ IF lastCall.budget < Len(budgets)
             THEN pc = "limits" /\ idx = lastCall.budget + 1
             ELSE pc = "monthSummary"
    /\ PastReconciliation => \A i \in 1..Len(budgets) : budgets[i].hasSpent

\* C1 witness: two budgets, the second answered by an error body that is not
\* the not-found message, both reconciled to 0
C1_Witness ==
    /\ Answered("limits")
    /\ lastCall.budget = 2
    /\ budgetsSpentCategories # Null
    /\ budgetsSpentCategories.message = "Unauthenticated."
    /\ budgets[1].hasSpent /\ budgets[1].spent = 0
    /\ budgets[2].hasSpent /\ budgets[2].spent = 0
    /\ pc = "monthSummary"

\* C2: a transaction-page request is issued for a budget only if its spent is
\* strictly greater than its budgeted amount.
C2_BreakdownOnlyWhenOverspent ==
    lastCall.stage = "pages" =>
        budgets[lastCall.budget].spent > budgets[lastCall.budget].budgeted.v

Max(a, b) == IF a > b THEN a ELSE b

\* C3: the page loop issues a bounded number of requests whatever the
\* responses say: one breakdown never requests more pages than the first
\* response announced (a single request when that is 0 or negative), so
\* responses whose total_pages grows cannot extend it.
C3_PageLoopBounded ==
    totalsReported # <<>> =>
        Len(pagesRequested) <= Max(1, totalsReported[1])

\* the page loop of the current breakdown has ended with its last response
PageLoopEnded ==
    /\ pc # "pages"
    /\ pagesRequested # <<>>
    /\ Len(totalsReported) = Len(pagesRequested)

ConstantTotal(n) ==
    /\ totalsReported # <<>>
    /\ \A i \in 1..Len(totalsReported) : totalsReported[i] = n

\* C4: when every response of a breakdown reports the same total_pages N >= 1,
\* the pages requested are 1, 2, ... in ascending order, each once, never
\* beyond N, and exactly 1..N once the loop has ended.
C4_ConstantTotalPages ==
    \A n \in 1..MaxPage :
        ConstantTotal(n) =>
            /\ pagesRequested = [i \in 1..Len(pagesRequested) |-> i]
            /\ Len(pagesRequested) <= n
            /\ pc = "pages" => /\ Len(totalsReported) < n
                               /\ pageNumber = Len(totalsReported) + 1
            /\ PageLoopEnded => Len(pagesRequested) = n

\* C4 witness: a breakdown of three pages, all reporting total_pages = 3
C4_Witness ==
    /\ PageLoopEnded
    /\ ConstantTotal(3)
    /\ pagesRequested = <<1, 2, 3>>

\* C5: the limits lookup and every transaction-page request of a budget carry
\* that budget's own id.
C5_RequestsKeyedByBudgetId ==
    lastCall.stage \in {"limits", "pages"} =>
        lastCall.id = budgets[lastCall.budget].id

\* the entry the reconciler is to choose: the first one in the configured
\* currency; the first entry without a configured currency or without a match
ExpectedMatch(spent_list, currency) ==
    LET hits == {i \in 1..Len(spent_list) :
                    spent_list[i].currency_code = currency}
    IN  IF currency = None \/ hits = {} THEN spent_list[1]
        ELSE spent_list[CHOOSE i \in hits : \A j \in hits : i <= j]

\* C6: for a non-empty list of spend entries the chosen entry is the first
\* one in the configured currency, and the first entry of the list when no
\* currency is configured or none matches.
C6_CurrencySelection ==
    (Answered("limits") /\ SpentListOf(budgetsSpentCategories) # <<>>) =>
        match = ExpectedMatch(SpentListOf(budgetsSpentCategories),
                              config.currency)

\* the first currency code among the summary's spent-in-<code> keys
FirstSpentCode(summary) ==
    LET hits == {i \in 1..Len(summary) : summary[i].key.prefix = "spent-in-"}
    IN  IF hits = {} THEN Unbound
        ELSE summary[CHOOSE i \in hits : \A j \in hits : i <= j].key.code

\* C7: the resolved currency is the configured one when one is configured,
\* otherwise the first code found among the month summary's spent-in keys.
C7_CurrencyResolution ==
    metrics.computed =>
        currencyName = IF config.currency # None THEN config.currency
                       ELSE FirstSpentCode(monthSummary)

HasKey(summary, prefix, code) ==
    \E i \in 1..Len(summary) :
        summary[i].key = [prefix |-> prefix, code |-> code]

\* one of the seven expected fields is missing for the resolved currency, or
\* no currency was resolved
SummaryFieldMissing ==
    \/ currencyName = Unbound
    \/ \E i \in 1..Len(MonthPrefixes) :
          ~HasKey(monthSummary, MonthPrefixes[i], currencyName)
    \/ \E i \in 1..Len(YearPrefixes) :
          ~HasKey(yearToDateSummary, YearPrefixes[i], currencyName)

SevenMetricsZero ==
    /\ metrics.spentThisMonth = 0
    /\ metrics.earnedThisMonth = 0
    /\ metrics.netChangeThisMonth = 0
    /\ metrics.spentThisYear = 0
    /\ metrics.earnedThisYear = 0
    /\ metrics.netChangeThisYear = 0
    /\ metrics.netWorth = 0

\* C8: when a summary field is missing or no currency is resolved, all seven
\* metrics are 0 and the run stands at rendering, not at an exit.
C8_MetricsDegrade ==
    /\ (metrics.computed /\ SummaryFieldMissing) => SevenMetricsZero
    /\ (metrics.computed /\ SummaryFieldMissing /\ Answered("summary")) =>
          pc \in {"tables", "render", "pages", "connect"}

\* C8 witness: one year field missing for a resolved currency whose other
\* fields are there, and the degraded report was delivered
C8_Witness ==
    /\ metrics.computed
    /\ currencyName = "EUR"
    /\ HasKey(monthSummary, "spent-in-", "EUR")
    /\ HasKey(monthSummary, "earned-in-", "EUR")
    /\ HasKey(yearToDateSummary, "spent-in-", "EUR")
    /\ ~HasKey(yearToDateSummary, "net-worth-in-", "EUR")
    /\ SevenMetricsZero
    /\ pc = "exit" /\ exitCode = 0 /\ emailSent

\* C9: exit code 0 only when the email was sent; every failure, the send
\* step's included, ends in one of 1, 2, 3, 99 with no email sent.
C9_ExitContract ==
    pc = "exit" =>
        /\ exitCode \in {0, 1, 2, 3, 99}
        /\ exitCode = 0 <=> emailSent

\* position of a stage in the order the claim gives
RankAsClaimed(stage) ==
    CASE stage = "categories" -> 1
      [] stage = "catDetail" -> 2
      [] stage = "budgets" -> 3
      [] stage = "limits" -> 4
      [] stage = "pages" -> 5
      [] stage = "summary" -> 6
      [] stage = "send" -> 7
      [] OTHER -> 0

\* position of a stage in the amended order
RankAmended(stage) ==
    CASE stage = "categories" -> 1
      [] stage = "catDetail" -> 2
      [] stage = "budgets" -> 3
      [] stage = "limits" -> 4
      [] stage = "summary" -> 5
      [] stage = "pages" -> 6
      [] stage = "send" -> 7
      [] OTHER -> 0

\* C10 as claimed: category list, category detail, budget list, limits,
\* transaction pages, summaries, send: the latest request is never of an
\* earlier stage than a request before it.
C10_OrderAsClaimed ==
    \A s \in stagesCalled : RankAsClaimed(s) <= RankAsClaimed(lastCall.stage)

\* C10 amended: category list, category detail, budget list, limits, the two
\* summary queries, transaction pages, send: the latest request is never of
\* an earlier stage than a request before it.
C10_OrderInCode ==
    \A s \in stagesCalled : RankAmended(s) <= RankAmended(lastCall.stage)

\* C10 witness: a run that issued requests of all seven stages and sent
C10_Witness ==
    /\ pc = "exit" /\ emailSent
    /\ {"categories", "catDetail", "budgets", "limits", "summary", "pages",
        "send"} \subseteq stagesCalled

\* the limits response answered last carried a list of spend entries, one of
\* which was selected and has a numeric sum
SelectedFigure ==
    /\ Answered("limits")
    /\ budgetsSpentCategories.kind = "dict"
    /\ budgetsSpentCategories.message # "Resource not found"
    /\ SpentListOf(budgetsSpentCategories) # <<>>
    /\ match # Null
    /\ match.sum.t = "num"

\* a whole number of hundredths no further than half a hundredth from x
IsRoundedTo2(y, x) == y % 10 = 0 /\ Abs(y - x) <= 5

\* C11: once the reconciliation loop has finished every budget has its spent,
\* a value >= 0 in whole hundredths; the value written for a selected figure
\* is its absolute value rounded to 2 decimals; a budget's spent is written
\* by its own pass of the reconciliation loop, once, and no later step of
\* the run changes it or the list.
C11_SpentWrittenOnce ==
    /\ [](PastReconciliation =>
             \A i \in 1..Len(budgets) :
                 /\ budgets[i].hasSpent
                 /\ budgets[i].spent >= 0
                 /\ budgets[i].spent % 10 = 0)
    /\ [](SelectedFigure =>
             IsRoundedTo2(budgets[lastCall.budget].spent, Abs(match.sum.v)))
    /\ [][\A i \in 1..Len(budgets) :
             /\ Len(budgets') = Len(budgets)
             /\ budgets'[i] # budgets[i] =>
                   /\ pc = "limits" /\ i = idx
                   /\ ~budgets[i].hasSpent /\ budgets'[i].hasSpent
                   /\ budgets'[i].id = budgets[i].id
                   /\ budgets'[i].budgeted = budgets[i].budgeted]_vars

\* C11 witness: two budgets reconciled, the second from the signed figure
\* -199.996 to 200.00, its breakdown fetched and the report delivered
C11_Witness ==
    /\ pc = "exit" /\ emailSent
    /\ Len(budgets) = 2
    /\ budgets[1].hasSpent
    /\ match # Null /\ match.sum = Num(-199996)
    /\ budgets[2].hasSpent /\ budgets[2].spent = 200000
    /\ lastCall.stage = "send"
    /\ "pages" \in stagesCalled

\* the amounts of the entries named name, as sent or as whole hundredths
AmountsOf(entries, name, inCents) ==
    LET named == SelectSeq(entries, LAMBDA x : x.category_name = name)
    IN  [i \in 1..Len(named) |->
            IF inCents THEN Round2(named[i].amount.v) ELSE named[i].amount.v]

RECURSIVE Total(_)
Total(amounts) ==
    IF amounts = <<>> THEN 0 ELSE Head(amounts) + Total(Tail(amounts))

FirstSeen(entries, name) ==
    CHOOSE i \in 1..Len(entries) :
        /\ entries[i].category_name = name
        /\ \A j \in 1..(i - 1) : entries[j].category_name # name

\* out lists every name of entries once with the sum of its amounts, in
\* descending order of the sum, equal sums in order of first appearance
IsBreakdownOf(out, entries, inCents) ==
    LET sum(k) == Total(AmountsOf(entries, out[k].name, inCents))
    IN  /\ {out[k].name : k \in 1..Len(out)} =
              {entries[i].category_name : i \in 1..Len(entries)}
        /\ \A k \in 1..Len(out) : out[k].total = sum(k)
        /\ \A k, l \in 1..Len(out) :
              k < l =>
                 /\ out[k].name # out[l].name
                 /\ \/ sum(k) > sum(l)
                    \/ /\ sum(k) = sum(l)
                       /\ FirstSeen(entries, out[k].name)
                             < FirstSeen(entries, out[l].name)

\* the block of the breakdown that ended last
LastBreakdown ==
    LET bad == {k \in 1..Len(budgetsMonthlyList) :
                   budgetsMonthlyList[k].kind = "bad"}
    IN  budgetsMonthlyList[CHOOSE k \in bad : \A l \in bad : l <= k]

\* C12 as claimed: a finished breakdown maps each category name to the sum
\* of the amounts of all entries of all fetched pages with that name, listed
\* in descending order of that sum, equal sums in order of first appearance.
C12_SumsOfAmounts ==
    PageLoopEnded =>
        IsBreakdownOf(LastBreakdown.categories, entriesFetched, FALSE)

\* C12 amended: the same with every amount first rounded to 2 decimals: the
\* sums, their order and their ties are those of the rounded amounts.
C12_SumsOfRoundedAmounts ==
    PageLoopEnded =>
        IsBreakdownOf(LastBreakdown.categories, entriesFetched, TRUE)

\* C12 witness: two pages; Groceries on both pages is added up to 50.00 and
\* ties with Dining, which was met later; Fuel with 25.00 comes last
C12_Witness ==
    /\ PageLoopEnded
    /\ pagesRequested = <<1, 2>>
    /\ entriesFetched =
          <<[category_name |-> "Fuel", amount |-> Num(25002)],
            [category_name |-> "Groceries", amount |-> Num(25002)],
            [category_name |-> "Dining", amount |-> Num(50000)],
            [category_name |-> "Groceries", amount |-> Num(25002)]>>
    /\ LastBreakdown.categories =
          <<[name |-> "Groceries", total |-> 50000],
            [name |-> "Dining", total |-> 50000],
            [name |-> "Fuel", total |-> 25000]>>
    /\ pc = "exit" /\ emailSent

\* a side the aggregator can read: no key, an empty list, or a list whose
\* first element has a numeric sum
IsReadableSide(side) ==
    \/ side.t = "absent"
    \/ side.t = "list" /\ (side.items = <<>> \/ side.items[1].t = "num")

\* the figure of a readable side: 0 without a key or without an element
SideFigure(side) ==
    IF side.t = "absent" \/ side.items = <<>> THEN 0 ELSE side.items[1].v

\* C13: the aggregator's output has one record per listed category in the
\* order of the list (none for the empty list, which is no error); a side
\* without key or with an empty sequence is 0 and raises nothing; total is
\* earned + spent.
C13_AggregatorOutput ==
    /\ Len(totals) <= Len(categories)
    /\ \A i \in 1..Len(totals) :
          /\ totals[i].name = CategoryName(categories[i])
          /\ totals[i].total = totals[i].earned + totals[i].spent
    /\ pc \notin {"start", "about", "categories", "catDetail", "exit"} =>
          Len(totals) = Len(categories)
    /\ (Answered("categories") /\ categories = <<>>) =>
          pc = "budgets" /\ totals = <<>>
    /\ (Answered("catDetail") /\ IsReadableSide(detail.spent)
          /\ IsReadableSide(detail.earned)) =>
          /\ pc # "exit"
          /\ totals # <<>>
          /\ totals[Len(totals)].spent = SideFigure(detail.spent)
          /\ totals[Len(totals)].earned = SideFigure(detail.earned)
          /\ idx = Len(totals) + 1

\* C13 witness: two categories; the second has no spent key and an empty
\* earned sequence and yields the all-zero record after the first one's
C13_Witness ==
    /\ Answered("catDetail")
    /\ categories = <<"9", "4">>
    /\ detail.spent = Absent /\ detail.earned = List(<<>>)
    /\ Len(totals) = 2
    /\ totals[1].name = "Gifts"
    /\ totals[2] = [name |-> "Groceries", spent |-> 0, earned |-> 0,
                    total |-> 0]
    /\ pc = "budgets"

\* k is an integer nearest to n / d
IsNearest(k, n, d) == 2 * Abs(k * d - n) <= Abs(d)

\* C14: once the metrics are computed, the saved amount is earned - spent of
\* the month rounded to a whole unit; the saved percentage is 0 when earned
\* is 0, whatever spent is, and otherwise saved / earned * 100 rounded to a
\* whole number; spend and saved percentage add up to 100 in every case.
C14_DerivedMetrics ==
    metrics.computed =>
        /\ IsNearest(metrics.savedThisMonth,
                     metrics.earnedThisMonth - metrics.spentThisMonth, 1000)
        /\ metrics.earnedThisMonth = 0 => metrics.savedPercentage = 0
        /\ metrics.earnedThisMonth # 0 =>
              IsNearest(metrics.savedPercentage,
                        metrics.savedThisMonth * 1000 * 100,
                        metrics.earnedThisMonth)
        /\ metrics.spendPercentage + metrics.savedPercentage = 100

\* C14 witness: nothing earned and 1200.00 spent in a month whose summaries
\* are complete: saved -1200, saved percentage 0, spend percentage 100
C14_Witness ==
    /\ metrics.computed
    /\ ~SummaryFieldMissing
    /\ metrics.earnedThisMonth = 0
    /\ metrics.spentThisMonth = 1200000
    /\ metrics.savedThisMonth = -1200
    /\ metrics.savedPercentage = 0
    /\ metrics.spendPercentage = 100
    /\ pc = "exit" /\ emailSent

\* C15: rendering a budget whose budgeted amount and reconciled spent are
\* both >= 0 never ends the run: the displayed percentage is computed without
\* a division by zero in the on-track and in the overspent branch, amounts
\* that round to 0 included.
C15_RenderingNeverAborts ==
    [][(/\ pc = "render"
        /\ budgets[idx].budgeted.v >= 0
        /\ budgets[idx].hasSpent
        /\ budgets[idx].spent >= 0) => pc' # "exit"]_vars

====
